---------------------------- MODULE Spec2Model ----------------------------
(***************************************************************************)
(* A model of spellcheck.py: a spell checker for Typst documents.          *)
(*                                                                         *)
(* A text is a sequence of characters; a character is a one-character      *)
(* string, except the backtick, which the TLA+ lexer does not accept in a  *)
(* string and which is written Backtick.  Python indexes from 0 and TLA+   *)
(* from 1: sys.argv[k] is argv[k+1] here.                                   *)
(***************************************************************************)
EXTENDS Naturals, Sequences, FiniteSets

Backtick == "BACKTICK"
NL == "\n"

(***************************************************************************)
(* Character classes of the regular expressions.                           *)
(***************************************************************************)
AsciiLower ==
    <<"a", "b", "c", "d", "e", "f", "g", "h", "i", "j", "k", "l", "m",
      "n", "o", "p", "q", "r", "s", "t", "u", "v", "w", "x", "y", "z">>
AsciiUpper ==
    <<"A", "B", "C", "D", "E", "F", "G", "H", "I", "J", "K", "L", "M",
      "N", "O", "P", "Q", "R", "S", "T", "U", "V", "W", "X", "Y", "Z">>
AccentLower ==
    <<"à", "è", "é", "ì", "ò", "ù", "á", "í", "ó", "ú", "ä", "ë", "ï",
      "ö", "ü", "â", "ê", "î", "ô", "û">>
AccentUpper ==
    <<"À", "È", "É", "Ì", "Ò", "Ù", "Á", "Í", "Ó", "Ú", "Ä", "Ë", "Ï",
      "Ö", "Ü", "Â", "Ê", "Î", "Ô", "Û">>
Digits == {"0", "1", "2", "3", "4", "5", "6", "7", "8", "9"}

Range(f) == {f[i] : i \in DOMAIN f}

\* [a-zA-Z]
AsciiLetters == Range(AsciiLower) \cup Range(AsciiUpper)
\* [a-zA-Z_] and [a-zA-Z0-9_] of the function-call pattern
IdentStart == AsciiLetters \cup {"_"}
IdentChars == AsciiLetters \cup Digits \cup {"_"}
\* \s of the URL pattern, and the characters str.strip() trims (those of
\* them that a TLA+ string can hold)
Whitespace == {" ", "\t", NL, "\r", "\f"}
\* [#\[\]{}*_~=<>|\\]
SpecialChars == {"#", "[", "]", "{", "}", "*", "_", "~", "=", "<", ">", "|", "\\"}
\* the character class of extract_words
WordChars ==
    AsciiLetters \cup Range(AccentLower) \cup Range(AccentUpper) \cup {"'"}

(***************************************************************************)
(* str.lower(), on the characters the model uses.                          *)
(***************************************************************************)
Uppers == AsciiUpper \o AccentUpper
Lowers == AsciiLower \o AccentLower
LowerChar(c) ==
    IF \E i \in DOMAIN Uppers : Uppers[i] = c
    THEN Lowers[CHOOSE i \in DOMAIN Uppers : Uppers[i] = c]
    ELSE c
Lower(s) == [i \in DOMAIN s |-> LowerChar(s[i])]

(***************************************************************************)
(* Helpers of the pattern matcher.                                         *)
(***************************************************************************)
Min(S) == CHOOSE m \in S : \A n \in S : m <= n

\* the pattern pat stands in s at position k
HasAt(s, pat, k) ==
    /\ k >= 1
    /\ k + Len(pat) - 1 <= Len(s)
    /\ \A m \in 1..Len(pat) : s[k + m - 1] = pat[m]

\* the first position >= from where pat stands in s; 0 when there is none
Find(s, pat, from) ==
    LET ks == {k \in from..Len(s) : HasAt(s, pat, k)}
    IN  IF ks = {} THEN 0 ELSE Min(ks)

\* the end of the greedy run of characters of class cls that starts at i:
\* the first position >= i whose character is not in cls (Len(s)+1 at the end)
RunEnd(s, cls, i) ==
    LET stops == {k \in i..Len(s) : s[k] \notin cls}
    IN  IF stops = {} THEN Len(s) + 1 ELSE Min(stops)

(***************************************************************************)
(* extract_text_from_typst: seven re.sub calls, each on the result of the  *)
(* one before.  re.sub scans left to right; where the pattern matches it   *)
(* drops (or replaces) the match and goes on after it; where it does not,  *)
(* it keeps the character and goes on at the next one.                     *)
(***************************************************************************)

\* re.sub(r'//.*?$', '', content, flags=re.MULTILINE): '.' is any character
\* but the newline and '$' stands before a newline or at the end, so the
\* match runs from '//' up to (not including) the next newline.
RECURSIVE RemoveLineCommentsFrom(_, _)
RemoveLineCommentsFrom(s, i) ==
    IF i > Len(s) THEN <<>>
    ELSE IF HasAt(s, <<"/", "/">>, i)
         THEN RemoveLineCommentsFrom(s, RunEnd(s, {c \in Range(s) : c # NL}, i + 2))
         ELSE <<s[i]>> \o RemoveLineCommentsFrom(s, i + 1)

\* a variant of RemoveLineComments that takes a single '/' for the marker
RECURSIVE RemoveFromSingleSlash(_, _)
RemoveFromSingleSlash(s, i) ==
    IF i > Len(s) THEN <<>>
    ELSE IF s[i] = "/"
         THEN RemoveFromSingleSlash(s, RunEnd(s, {c \in Range(s) : c # NL}, i + 1))
         ELSE <<s[i]>> \o RemoveFromSingleSlash(s, i + 1)

RemoveLineCommentsSingleSlash(content) == RemoveFromSingleSlash(content, 1)

RemoveLineComments(content) == RemoveLineCommentsFrom(content, 1)

\* re.sub(open + '.*?' + close, '', content, flags=re.DOTALL): the lazy
\* '.*?' ends at the first close marker that starts after the open marker.
RECURSIVE RemoveDelimitedFrom(_, _, _, _)
RemoveDelimitedFrom(s, open, close, i) ==
    IF i > Len(s) THEN <<>>
    ELSE LET j == IF HasAt(s, open, i) THEN Find(s, close, i + Len(open)) ELSE 0
         IN  IF j # 0
             THEN RemoveDelimitedFrom(s, open, close, j + Len(close))
             ELSE <<s[i]>> \o RemoveDelimitedFrom(s, open, close, i + 1)

\* re.sub(r'/\*.*?\*/', '', content, flags=re.DOTALL)
RemoveBlockComments(content) ==
    RemoveDelimitedFrom(content, <<"/", "*">>, <<"*", "/">>, 1)

\* the end (first position after) of a match of
\* #[a-zA-Z_][a-zA-Z0-9_]*(?:\[.*?\]|\(.*?\))? that starts at i; 0 when the
\* pattern does not match at i.  The identifier is greedy and the optional
\* group is tried after the whole identifier.
FunctionCallEnd(s, i) ==
    IF ~(HasAt(s, <<"#">>, i) /\ i + 1 <= Len(s) /\ s[i + 1] \in IdentStart)
    THEN 0
    ELSE LET e == RunEnd(s, IdentChars, i + 1)
             br == IF HasAt(s, <<"[">>, e) THEN Find(s, <<"]">>, e + 1) ELSE 0
             pa == IF HasAt(s, <<"(">>, e) THEN Find(s, <<")">>, e + 1) ELSE 0
         IN  IF br # 0 THEN br + 1
             ELSE IF pa # 0 THEN pa + 1
             ELSE e

\* re.sub(r'#[a-zA-Z_][a-zA-Z0-9_]*(?:\[.*?\]|\(.*?\))?', '', content, flags=re.DOTALL)
RECURSIVE RemoveFunctionCallsFrom(_, _)
RemoveFunctionCallsFrom(s, i) ==
    IF i > Len(s) THEN <<>>
    ELSE LET e == FunctionCallEnd(s, i)
         IN  IF e # 0
             THEN RemoveFunctionCallsFrom(s, e)
             ELSE <<s[i]>> \o RemoveFunctionCallsFrom(s, i + 1)

RemoveFunctionCalls(content) == RemoveFunctionCallsFrom(content, 1)

\* re.sub(r'```.*?```', '', content, flags=re.DOTALL)
RemoveCodeBlocks(content) ==
    RemoveDelimitedFrom(content, <<Backtick, Backtick, Backtick>>,
                        <<Backtick, Backtick, Backtick>>, 1)

\* re.sub(r'`[^`]+`', '', content): a backtick, at least one character that
\* is not a backtick, and the next backtick.
RECURSIVE RemoveInlineCodeFrom(_, _)
RemoveInlineCodeFrom(s, i) ==
    IF i > Len(s) THEN <<>>
    ELSE LET j == IF /\ s[i] = Backtick
                     /\ i + 1 <= Len(s)
                     /\ s[i + 1] # Backtick
                  THEN Find(s, <<Backtick>>, i + 2)
                  ELSE 0
         IN  IF j # 0
             THEN RemoveInlineCodeFrom(s, j + 1)
             ELSE <<s[i]>> \o RemoveInlineCodeFrom(s, i + 1)

RemoveInlineCode(content) == RemoveInlineCodeFrom(content, 1)

\* the end (first position after) of a match of https?://[^\s\)]+ that
\* starts at i; 0 when the pattern does not match at i.
UrlEnd(s, i) ==
    LET p == IF HasAt(s, <<"h", "t", "t", "p", "s", ":", "/", "/">>, i) THEN i + 8
             ELSE IF HasAt(s, <<"h", "t", "t", "p", ":", "/", "/">>, i) THEN i + 7
             ELSE 0
        e == RunEnd(s, {c \in Range(s) : c \notin Whitespace \cup {")"}}, p)
    IN  IF p # 0 /\ e > p THEN e ELSE 0

\* re.sub(r'https?://[^\s\)]+', '', content)
RECURSIVE RemoveUrlsFrom(_, _)
RemoveUrlsFrom(s, i) ==
    IF i > Len(s) THEN <<>>
    ELSE LET e == UrlEnd(s, i)
         IN  IF e # 0
             THEN RemoveUrlsFrom(s, e)
             ELSE <<s[i]>> \o RemoveUrlsFrom(s, i + 1)

RemoveUrls(content) == RemoveUrlsFrom(content, 1)

\* a variant of ReplaceSpecialChars that deletes the special characters
DeleteSpecialChars(content) ==
    LET RECURSIVE Kept(_)
        Kept(i) ==
            IF i > Len(content) THEN <<>>
            ELSE (IF content[i] \in SpecialChars THEN <<>> ELSE <<content[i]>>)
                 \o Kept(i + 1)
    IN  Kept(1)

\* re.sub(r'[#\[\]{}*_~=<>|\\]', ' ', content)
ReplaceSpecialChars(content) ==
    [i \in DOMAIN content |->
        IF content[i] \in SpecialChars THEN " " ELSE content[i]]

\* the text that reaches the last substitution (lines 28 to 38)
RemoveMarkup(content) ==
    RemoveUrls(RemoveInlineCode(RemoveCodeBlocks(RemoveFunctionCalls(
        RemoveBlockComments(RemoveLineComments(content))))))

extract_text_from_typst(content) == ReplaceSpecialChars(RemoveMarkup(content))

(***************************************************************************)
(* extract_words: re.findall of maximal runs of word characters, left to   *)
(* right; the runs longer than one character, lowercased.                  *)
(***************************************************************************)
RECURSIVE FindWordsFrom(_, _)
FindWordsFrom(s, i) ==
    IF i > Len(s) THEN <<>>
    ELSE IF s[i] \in WordChars
         THEN LET e == RunEnd(s, WordChars, i)
              IN  <<SubSeq(s, i, e - 1)>> \o FindWordsFrom(s, e)
         ELSE FindWordsFrom(s, i + 1)

RECURSIVE LongWordsLowered(_)
LongWordsLowered(ws) ==
    IF ws = <<>> THEN <<>>
    ELSE (IF Len(Head(ws)) > 1 THEN <<Lower(Head(ws))>> ELSE <<>>)
         \o LongWordsLowered(Tail(ws))

\* a variant of extract_words that keeps the words of one character
extract_words_of_any_length(text) ==
    LET ws == FindWordsFrom(text, 1) IN [k \in DOMAIN ws |-> Lower(ws[k])]

extract_words(text) == LongWordsLowered(FindWordsFrom(text, 1))

\* a variant of Misspelled that collects the words of the dictionary
MisspelledInDictionary(words, dictionary) ==
    {words[i] : i \in {k \in DOMAIN words : words[k] \in dictionary}}

\* misspelled = {word for word in words if word not in dictionary}
Misspelled(words, dictionary) ==
    {words[i] : i \in {k \in DOMAIN words : words[k] \notin dictionary}}

(***************************************************************************)
(* load_dictionary: the lines of the file, stripped and lowercased, blank  *)
(* lines skipped.                                                          *)
(***************************************************************************)
\* the lines of a text, as iterating over the file yields them (each line
\* without its newline, which strip() drops anyway)
RECURSIVE SplitLinesFrom(_, _)
SplitLinesFrom(s, i) ==
    IF i > Len(s) THEN <<>>
    ELSE LET e == RunEnd(s, {c \in Range(s) : c # NL}, i)
         IN  <<SubSeq(s, i, e - 1)>> \o SplitLinesFrom(s, e + 1)

\* str.strip()
Strip(line) ==
    LET inked == {k \in DOMAIN line : line[k] \notin Whitespace}
    IN  IF inked = {} THEN <<>>
        ELSE SubSeq(line, Min(inked), CHOOSE m \in inked : \A n \in inked : n <= m)

\* {line.strip().lower() for line in f if line.strip()}
load_dictionary(data) ==
    LET lines == SplitLinesFrom(data, 1)
    IN  {Lower(Strip(lines[i])) : i \in {k \in DOMAIN lines : Strip(lines[k]) # <<>>}}

(***************************************************************************)
(* The files of a run.                                                     *)
(***************************************************************************)
Missing == [kind |-> "missing"]
\* a file whose bytes are not valid UTF-8
Binary == [kind |-> "binary"]
TextFile(data) == [kind |-> "text", data |-> data]

Script == "spellcheck.py"
DictPath == "dict.txt"
AllFlag == "--all"
TypPaths == {"a.typ", "b.typ"}
Paths == TypPaths \cup {DictPath, AllFlag}

\* the bounds of the model
MaxFiles == 3
MaxPieces == 3

SeqsUpTo(S, n) == UNION {[1..k -> S] : k \in 0..n}

RECURSIVE Concat(_)
Concat(ps) == IF ps = <<>> THEN <<>> ELSE Head(ps) \o Concat(Tail(ps))

\* the orders in which Path('.').rglob('*.typ') can yield the files of S
Orders(S) ==
    {o \in [1..Cardinality(S) -> S] : \A p \in S : \E i \in DOMAIN o : o[i] = p}

(***************************************************************************)
(* The inputs of the runs the model explores.                              *)
(***************************************************************************)
\* dictionary files
DictAb == <<"a", "b", NL>>
DictWords ==
    <<"A", "B", NL, " ", "c", "a", "b", " ", NL, NL, "'", "'", NL, "\t", NL,
      "É", "é", NL, "a", "b", "c">>
DictHello ==
    <<"H", "e", "l", "l", "o", NL, " ", "w", "o", "r", "l", "d", " ", NL, NL>>
DictVisitNow == <<"v", "i", "s", "i", "t", NL, "n", "o", "w", NL>>

\* documents of the runs with several files
DocGood == <<"a", "b", " ", "A", "b">>
DocBad == <<"a", "b", " ", "x", "y">>

\* pieces of markup, of which raw texts are put together
MarkupPieces ==
    {<<"/">>, <<"*">>, <<"#">>, <<Backtick>>, <<"(">>, <<")">>, <<"[">>,
     <<"]">>, <<" ">>, <<NL>>, <<"a", "b">>, <<"C">>, <<"h", "t", "t", "p", ":">>}
\* pieces of prose, of which plain texts are put together
WordPieces ==
    {<<"a", "b">>, <<"C">>, <<"É">>, <<"é">>, <<"'">>, <<"1">>, <<" ">>,
     <<"-">>, <<"_">>}

\* the examples of the documentation
ExHello == <<"H", "e", "l", "l", "o", " ", "w", "r", "o", "l", "d">>
ExComment ==
    <<"/", "/", " ", "s", "e", "c", "r", "e", "t", NL,
      "T", "h", "e", " ", "c", "a", "t", " ", "s", "a", "t">>
ExInlineCode ==
    <<"U", "s", "e", " ", Backtick, "f", "o", "o", "_", "b", "a", "r", "(",
      ")", Backtick, " ", "h", "e", "r", "e">>
ExFigure ==
    <<"#", "f", "i", "g", "u", "r", "e", "(", "[", "A", " ", "c", "a", "p",
      "t", "i", "o", "n", "]", ")">>
ExUrlOnly ==
    <<"h", "t", "t", "p", "s", ":", "/", "/", "e", "x", "a", "m", "p", "l",
      "e", ".", "c", "o", "m", "/", "p", "a", "t", "h">>
ExUrl == <<"V", "i", "s", "i", "t", " ">> \o ExUrlOnly \o <<" ", "n", "o", "w">>
\* further documents: a block comment that holds '//', block comments in a
\* row and across lines, markup between two words, a URL put together by
\* the removal of a code span, a code block
ExBlockWithSlashes ==
    <<"/", "*", " ", "a", "b", " ", "/", "/", " ", "c", "d", " ", "*", "/",
      " ", "e", "f">>
ExBlocks ==
    <<"/", "*", " ", "z", "z", NL, "z", "z", " ", "*", "/", " ", "a", "b",
      " ", "/", "*", "z", "z", "*", "/", " ", "e", "f">>
ExFused == <<"a", "b", "/", "*", " ", "x", " ", "*", "/", "c", "d">>
ExSlashCode == <<"/", Backtick, "a", Backtick, "/", " ", "f", "o", "o">>
ExUrlMade ==
    <<"h", "t", "t", "p", ":", "/", Backtick, "a", Backtick, "/", "x", ".",
      "y", ")", " ", "a", "b">>
ExCodeBlock ==
    <<"a", "b", " ", Backtick, Backtick, Backtick, "x", "y", NL, "z",
      Backtick, Backtick, Backtick, " ", "#", "e", "m", "p", "h", "[", "c",
      "d", "]", " ", "=", " ", "H", "i">>
Examples ==
    {ExHello, ExComment, ExInlineCode, ExFigure, ExUrl, ExBlockWithSlashes,
     ExBlocks, ExFused, ExSlashCode, ExUrlMade, ExCodeBlock}

MarkupTexts == {Concat(ps) : ps \in SeqsUpTo(MarkupPieces, MaxPieces)}
WordTexts == {Concat(ps) : ps \in SeqsUpTo(WordPieces, MaxPieces)}

VARIABLES
    argv,          \* sys.argv
    fs,            \* the file system: what opening each path gives
    pc,            \* where main is: start, loaded, checking, report, exit
    dictionary,    \* main's dictionary
    typst_files,   \* main's typst_files
    idx,           \* the position of the generator of line 96 in typst_files
    checked,       \* the paths spellcheck_file was called with, in order
    all_passed,    \* main's all_passed
    exitCode,      \* the status of sys.exit; -1 while the run goes on
    content,       \* the locals of the latest call of spellcheck_file
    text,
    words,
    misspelled

vars ==
    <<argv, fs, pc, dictionary, typst_files, idx, checked, all_passed,
      exitCode, content, text, words, misspelled>>

NoExit == 0 - 1

InitLocals ==
    /\ pc = "start"
    /\ dictionary = {}
    /\ typst_files = <<>>
    /\ idx = 1
    /\ checked = <<>>
    /\ all_passed = FALSE
    /\ exitCode = NoExit
    /\ content = <<>>
    /\ text = <<>>
    /\ words = <<>>
    /\ misspelled = {}

\* runs over up to MaxFiles arguments, with files of every kind
InitRuns ==
    /\ argv \in {<<Script>>} \cup
           {<<Script, DictPath>> \o rest :
               rest \in SeqsUpTo(TypPaths \cup {AllFlag}, MaxFiles)}
    /\ fs \in {f \in [Paths -> {Missing, Binary, TextFile(DictAb),
                                 TextFile(DocGood), TextFile(DocBad)}] :
                  /\ f[AllFlag] = Missing
                  /\ f[DictPath] \in {Missing, Binary, TextFile(DictAb)}
                  /\ \A p \in TypPaths : f[p] # TextFile(DictAb)}

\* runs over one document, with documents of every text
InitTexts ==
    /\ argv = <<Script, DictPath, "a.typ">>
    /\ \E d \in {DictAb, DictWords, DictHello, DictVisitNow} :
       \E t \in MarkupTexts \cup WordTexts \cup Examples :
          /\ d = DictAb => t \in MarkupTexts \cup Examples
          /\ d = DictWords => t \in WordTexts \cup Examples
          /\ d \in {DictHello, DictVisitNow} => t \in Examples
          /\ fs = [p \in Paths |->
                     IF p = DictPath THEN TextFile(d)
                     ELSE IF p = "a.typ" THEN TextFile(t)
                     ELSE Missing]

Init == InitLocals /\ (InitRuns \/ InitTexts)

(***************************************************************************)
(* main, step by step.                                                     *)
(***************************************************************************)
\* lines 77-83: fewer than two arguments
Usage ==
    /\ pc = "start"
    /\ Len(argv) < 3
    /\ pc' = "exit"
    /\ exitCode' = 1
    /\ UNCHANGED <<argv, fs, dictionary, typst_files, idx, checked,
                   all_passed, content, text, words, misspelled>>

\* a variant of LoadDictionary that goes on with an empty dictionary when
\* the file cannot be read
LoadDictionaryWithoutFile ==
    /\ pc = "start"
    /\ Len(argv) >= 3
    /\ dictionary' = IF fs[argv[2]].kind = "text"
                     THEN load_dictionary(fs[argv[2]].data)
                     ELSE {}
    /\ pc' = "loaded"
    /\ UNCHANGED <<argv, fs, typst_files, idx, checked, all_passed, exitCode,
                   content, text, words, misspelled>>

\* lines 85-86 and load_dictionary: a missing file is reported and ends the
\* run with sys.exit(1); a file that is not UTF-8 raises UnicodeDecodeError,
\* which nothing catches, and the interpreter ends the run with status 1.
LoadDictionary ==
    /\ pc = "start"
    /\ Len(argv) >= 3
    /\ IF fs[argv[2]].kind = "text"
       THEN /\ dictionary' = load_dictionary(fs[argv[2]].data)
            /\ pc' = "loaded"
            /\ UNCHANGED exitCode
       ELSE /\ pc' = "exit"
            /\ exitCode' = 1
            /\ UNCHANGED dictionary
    /\ UNCHANGED <<argv, fs, typst_files, idx, checked, all_passed,
                   content, text, words, misspelled>>

\* lines 88-94
SelectFiles ==
    /\ pc = "loaded"
    /\ IF argv[3] = AllFlag
       THEN \E found \in Orders({p \in TypPaths : fs[p].kind # "missing"}) :
               IF found = <<>>
               THEN /\ pc' = "exit"
                    /\ exitCode' = 0
                    /\ UNCHANGED typst_files
               ELSE /\ typst_files' = found
                    /\ pc' = "checking"
                    /\ UNCHANGED exitCode
       ELSE /\ typst_files' = SubSeq(argv, 3, Len(argv))
            /\ pc' = "checking"
            /\ UNCHANGED exitCode
    /\ UNCHANGED <<argv, fs, dictionary, idx, checked, all_passed,
                   content, text, words, misspelled>>

\* a variant of spellcheck_file that gives True for a file it cannot read
spellcheck_file_unreadable_passes(file, dict) ==
    IF file.kind = "text"
    THEN LET t == extract_text_from_typst(file.data)
             w == extract_words(t)
             m == Misspelled(w, dict)
         IN  [content |-> file.data, text |-> t, words |-> w,
              misspelled |-> m, result |-> (m = {})]
    ELSE [content |-> <<>>, text |-> <<>>, words |-> <<>>,
          misspelled |-> {}, result |-> TRUE]

\* spellcheck_file on a file: its locals and the value it returns.  A file
\* that is missing or is not UTF-8 is reported and gives False before any
\* local but content's slot is set.
spellcheck_file(file, dict) ==
    IF file.kind = "text"
    THEN LET t == extract_text_from_typst(file.data)
             w == extract_words(t)
             m == Misspelled(w, dict)
         IN  [content |-> file.data, text |-> t, words |-> w,
              misspelled |-> m, result |-> (m = {})]
    ELSE [content |-> <<>>, text |-> <<>>, words |-> <<>>,
          misspelled |-> {}, result |-> FALSE]

\* line 96, one step of the generator: all() asks for the next result, which
\* calls spellcheck_file on the next file; all() returns False at the first
\* result that is False, without asking for another.
SpellcheckFile ==
    /\ pc = "checking"
    /\ idx <= Len(typst_files)
    /\ LET filepath == typst_files[idx]
           call == spellcheck_file(fs[filepath], dictionary)
       IN  /\ checked' = Append(checked, filepath)
           /\ content' = call.content
           /\ text' = call.text
           /\ words' = call.words
           /\ misspelled' = call.misspelled
           /\ IF call.result
              THEN /\ idx' = idx + 1
                   /\ UNCHANGED <<pc, all_passed>>
              ELSE /\ all_passed' = FALSE
                   /\ pc' = "report"
                   /\ UNCHANGED idx
    /\ UNCHANGED <<argv, fs, dictionary, typst_files, exitCode>>

\* line 96: the generator is exhausted and all() returns True
AllPassed ==
    /\ pc = "checking"
    /\ idx > Len(typst_files)
    /\ all_passed' = TRUE
    /\ pc' = "report"
    /\ UNCHANGED <<argv, fs, dictionary, typst_files, idx, checked, exitCode,
                   content, text, words, misspelled>>

\* lines 98-103
Report ==
    /\ pc = "report"
    /\ exitCode' = IF all_passed THEN 0 ELSE 1
    /\ pc' = "exit"
    /\ UNCHANGED <<argv, fs, dictionary, typst_files, idx, checked,
                   all_passed, content, text, words, misspelled>>

Next ==
    \/ Usage
    \/ LoadDictionary
    \/ SelectFiles
    \/ SpellcheckFile
    \/ AllPassed
    \/ Report

Spec == Init /\ [][Next]_vars

(***************************************************************************)
(* Properties.                                                             *)
(***************************************************************************)
\* pat stands somewhere in s
Occurs(pat, s) == \E k \in 1..Len(s) : HasAt(s, pat, k)

\* w is a contiguous run of s
IsRunOf(w, s) == w = <<>> \/ Occurs(w, s)

\* load_dictionary has returned the dictionary to main
DictionaryLoaded ==
    /\ pc # "start"
    /\ Len(argv) >= 3
    /\ fs[argv[2]].kind = "text"

\* C1: once the dictionary has loaded, every document of the input list is
\* checked by spellcheck_file before the run ends; an unreadable document
\* counts as failed and the documents after it are still checked.
C1_EveryDocumentChecked ==
    (pc = "exit" /\ DictionaryLoaded) => checked = typst_files

\* C2: a URL between prose words on one line is removed entirely and the
\* words before and after it are kept: "Visit https://example.com/path now"
\* against the dictionary {visit, now} has no misspelling.
C2_UrlRemoved ==
    (content = ExUrl /\ dictionary = {<<"v", "i", "s", "i", "t">>, <<"n", "o", "w">>})
        => /\ text = <<"V", "i", "s", "i", "t", " ", " ", "n", "o", "w">>
           /\ misspelled = {}

\* C3 as stated: extract_text_from_typst applied to its own output returns
\* that output, for every raw text.
C3_Idempotent == extract_text_from_typst(text) = text

\* C3 as amended: extract_text_from_typst applied to its own output returns
\* that output for every raw text that has no backtick and no '#'; and for
\* every raw text the output holds no block comment, function call, code
\* block, URL or special character for a second run to remove.
C3_IdempotentWithoutCodeAndCalls ==
    /\ (Backtick \notin Range(content) /\ "#" \notin Range(content))
           => extract_text_from_typst(text) = text
    /\ RemoveBlockComments(text) = text
    /\ RemoveFunctionCalls(text) = text
    /\ RemoveCodeBlocks(text) = text
    /\ RemoveUrls(text) = text
    /\ ReplaceSpecialChars(text) = text

\* a raw text with something to strip and neither a backtick nor a '#' has
\* been stripped
C3_Witness ==
    /\ Backtick \notin Range(content)
    /\ "#" \notin Range(content)
    /\ Occurs(<<"/", "/">>, content)
    /\ Occurs(<<"*">>, content)
    /\ text # content
    /\ text # <<>>

\* the document reads and each of its words is in the dictionary
DocumentPasses(file) ==
    /\ file.kind = "text"
    /\ Range(extract_words(extract_text_from_typst(file.data))) \subseteq dictionary

\* C4: main exits with status 0 exactly when every document of the input
\* list reads and has no misspelling, and with a non-zero status otherwise.
C4_ExitIsAndOfDocuments ==
    (pc = "exit" /\ DictionaryLoaded) =>
        /\ exitCode \in {0, 1}
        /\ exitCode = 0 <=>
              \A i \in DOMAIN typst_files : DocumentPasses(fs[typst_files[i]])

\* a run over several documents ended non-zero for a document that is not
\* the first
C4_Witness ==
    /\ pc = "exit"
    /\ Len(typst_files) >= 2
    /\ exitCode = 1
    /\ DocumentPasses(fs[typst_files[1]])
    /\ \E i \in DOMAIN typst_files : fs[typst_files[i]].kind = "binary"

\* a raw text with no markup construct: no '//' or '/*', no '#', no
\* backtick, no http/https URL, no special character
NoMarkupConstruct(s) ==
    /\ ~Occurs(<<"/", "/">>, s)
    /\ ~Occurs(<<"/", "*">>, s)
    /\ ~Occurs(<<Backtick>>, s)
    /\ ~Occurs(<<"h", "t", "t", "p", ":", "/", "/">>, s)
    /\ ~Occurs(<<"h", "t", "t", "p", "s", ":", "/", "/">>, s)
    /\ \A i \in DOMAIN s : s[i] \notin SpecialChars

\* C5: a raw text with no markup construct comes out of
\* extract_text_from_typst unchanged.
C5_PlainTextUnchanged == NoMarkupConstruct(content) => text = content

\* a text with slashes, parentheses and words, and no markup construct, has
\* been stripped
C5_Witness ==
    /\ NoMarkupConstruct(content)
    /\ Occurs(<<"/">>, content)
    /\ Occurs(<<")">>, content)
    /\ \E i \in DOMAIN content : content[i] \in WordChars
    /\ text = content

\* the maximal runs of word characters of s that are longer than one
\* character, as pairs of their first and last position
LongRuns(s) ==
    {r \in (1..Len(s)) \X (1..Len(s)) :
        /\ r[1] < r[2]
        /\ \A k \in r[1]..r[2] : s[k] \in WordChars
        /\ r[1] = 1 \/ s[r[1] - 1] \notin WordChars
        /\ r[2] = Len(s) \/ s[r[2] + 1] \notin WordChars}

\* ws is the list of the long runs of s in the order of their positions,
\* lowercased, each at least two characters of lowercase letters and
\* apostrophes
TokensOf(s, ws) ==
    /\ Len(ws) = Cardinality(LongRuns(s))
    /\ \A r \in LongRuns(s) :
          ws[1 + Cardinality({q \in LongRuns(s) : q[1] < r[1]})]
              = Lower(SubSeq(s, r[1], r[2]))
    /\ \A k \in DOMAIN ws :
          /\ Len(ws[k]) >= 2
          /\ \A j \in DOMAIN ws[k] :
                ws[k][j] \in Range(AsciiLower) \cup Range(AccentLower) \cup {"'"}

\* C6: every token of extract_words has at least two characters, no
\* uppercase letter and only letters of the allowed set and apostrophes;
\* the tokens come in the order of their positions, duplicates kept.
C6_Tokens ==
    /\ TokensOf(text, words)
    /\ TokensOf(content, extract_words(content))

\* a text with an uppercase letter gave the same token twice
C6_Witness ==
    /\ Len(words) >= 2
    /\ words[1] = words[2]
    /\ \E i \in DOMAIN text : text[i] \in Range(AsciiUpper)

\* C7: the misspelling set is the set of the tokens that are not in the
\* dictionary, empty exactly when every token is in the dictionary;
\* "Hello wrold" against {hello, world} gives {wrold}.
C7_Misspelled ==
    /\ misspelled = Range(words) \ dictionary
    /\ misspelled = {} <=> \A k \in DOMAIN words : words[k] \in dictionary
    /\ (content = ExHello /\ dictionary = load_dictionary(DictHello))
           => misspelled = {<<"w", "r", "o", "l", "d">>}

\* "Hello wrold" has been checked against {hello, world}
C7_Witness ==
    /\ content = ExHello
    /\ dictionary = {<<"h", "e", "l", "l", "o">>, <<"w", "o", "r", "l", "d">>}
    /\ words = <<<<"h", "e", "l", "l", "o">>, <<"w", "r", "o", "l", "d">>>>
    /\ misspelled = {<<"w", "r", "o", "l", "d">>}

\* C8: when the dictionary file does not exist the run ends with a non-zero
\* status and spellcheck_file is never called.
C8_MissingDictionaryHalts ==
    (Len(argv) >= 3 /\ fs[argv[2]].kind = "missing") =>
        /\ pc \in {"start", "exit"}
        /\ checked = <<>>
        /\ pc = "exit" => exitCode = 1

\* a run with documents to check ended for the lack of the dictionary
C8_Witness ==
    /\ Len(argv) >= 4
    /\ fs[argv[2]].kind = "missing"
    /\ fs[argv[3]].kind = "text"
    /\ pc = "exit"

\* C9: the text between each '/*' of the raw text and the nearest following
\* '*/' is removed, so the stripped text is what stripping gives once the
\* block comments of the raw text are gone, and no word of a block comment
\* is among the tokens.
C9_BlockCommentsRemoved ==
    /\ text = extract_text_from_typst(RemoveBlockComments(content))
    /\ words = extract_words(extract_text_from_typst(RemoveBlockComments(content)))

\* C10 as stated: every token is, up to letter case, a contiguous run of
\* the raw text.
C10_TokensAreRunsOfRaw ==
    \A k \in DOMAIN words : IsRunOf(words[k], Lower(content))

\* C10 as amended: the replacement of the special characters never fuses
\* words: every token is, up to letter case, a contiguous run of the text
\* that is left when comments, function calls, code and URLs are removed.
C10_TokensAreRunsOfUnmarked ==
    \A k \in DOMAIN words : IsRunOf(words[k], Lower(RemoveMarkup(content)))

\* a special character stood between two words, which came out as two
\* tokens
C10_Witness ==
    /\ \E i \in 2..(Len(content) - 1) :
          /\ content[i] \in SpecialChars
          /\ content[i - 1] \in WordChars
          /\ content[i + 1] \in WordChars
    /\ RemoveMarkup(content) = content
    /\ Len(words) = 2

=============================================================================
